---- MODULE Spec2Model ----
(***************************************************************************)
(* Model of pkg/model/lexvec/options.go (package lexvec of wego): the      *)
(* RelationType enum (String / Set / Type), the package-level defaults,    *)
(* DefaultOptions, LoadForCmd (flag registration against pflag) and the    *)
(* sixteen ModelOption builders.                                           *)
(*                                                                         *)
(* Strings are TLA+ strings (equality is exact and case-sensitive, as Go   *)
(* string equality is).  float64 fields are held as integer multiples of   *)
(* 1e-4 (0.025 is 250).  An error value is the sequence of the pieces of   *)
(* its formatted message; nil is the empty sequence.                       *)
(***************************************************************************)
EXTENDS Integers, Sequences, FiniteSets, TLC

VARIABLES
    hostCPU,            \* processing-unit count the host reports right now
    defaultGoroutines,  \* package variable, options.go:63
    cpuAtLoad,          \* history: the count reported when the package was initialised
    t,                  \* a RelationType receiver
    hist,               \* history: the calls made on t, in order
    u,                  \* a second RelationType receiver (the one that gets Set("ppmi"))
    histU,              \* history: the calls made on u, in order
    opts,               \* the Options value operated on through a pointer
    base,               \* history: opts before the first ModelOption / before LoadForCmd
    applied,            \* history: the ModelOptions applied to opts, in order
    bound,              \* LoadForCmd has registered the flags on the command
    relDefValue,        \* DefValue pflag recorded for the --rel flag
    parsed,             \* history: the last --rel argument parsed, <<>> when none was
    perr,               \* error returned by the last flag parse
    dflt,               \* <<v>> for the value v the last DefaultOptions() returned, <<>> before
    hostAtCall          \* history: hostCPU at that call

vars == <<hostCPU, defaultGoroutines, cpuAtLoad, t, hist, u, histU, opts, base,
          applied, bound, relDefValue, parsed, perr, dflt, hostAtCall>>

envVars  == <<hostCPU, defaultGoroutines, cpuAtLoad>>
relVars  == <<t, hist>>
twinVars == <<u, histU>>
optVars  == <<opts, base, applied>>
cmdVars  == <<bound, relDefValue, parsed, perr, dflt, hostAtCall>>

----------------------------------------------------------------------------
(* Bounds *)

MaxCalls == 3   \* calls made on one RelationType receiver
MaxOps   == 2   \* ModelOptions applied in one sequence
MaxCPU   == 3   \* largest processing-unit count the host reports

----------------------------------------------------------------------------
(* RelationType, options.go:25-57 *)

PPMI           == "ppmi"
PMI            == "pmi"
Collocation    == "co"
LogCollocation == "logco"
defaultRelationType == PPMI

NoError == <<>>

\* errors.Errorf("invalid relation type: %s not in %s|%s|%s|%s", typ, ...).
\* typ and the constants are RelationType values, not pointers, so %s prints
\* the underlying string (String has a pointer receiver).
invalidRelationTypeErrorSwapped(typ) ==
    <<"invalid relation type: ", typ, " not in ",
      PMI, "|", PPMI, "|", Collocation, "|", LogCollocation>>

invalidRelationTypeError(typ) ==
    <<"invalid relation type: ", typ, " not in ",
      PPMI, "|", PMI, "|", Collocation, "|", LogCollocation>>

\* Each method returns the receiver after the call (field t) and its result.
StringNoWriteBack(r) ==
    [t |-> r, out |-> IF r = "" THEN defaultRelationType ELSE r]

String(r) ==
    LET r1 == IF r = "" THEN defaultRelationType ELSE r
    IN  [t |-> r1, out |-> r1]

SetAssignFirst(r, name) ==
    LET typ == name
    IN  IF typ = PPMI \/ typ = PMI \/ typ = Collocation \/ typ = LogCollocation
        THEN [t |-> typ, err |-> NoError]
        ELSE [t |-> typ, err |-> invalidRelationTypeError(typ)]

SetNoLogCollocation(r, name) ==
    LET typ == name
    IN  IF typ = PPMI \/ typ = PMI \/ typ = Collocation
        THEN [t |-> typ, err |-> NoError]
        ELSE [t |-> r, err |-> invalidRelationTypeError(typ)]

Set(r, name) ==
    LET typ == name
    IN  IF typ = PPMI \/ typ = PMI \/ typ = Collocation \/ typ = LogCollocation
        THEN [t |-> typ, err |-> NoError]
        ELSE [t |-> r, err |-> invalidRelationTypeError(typ)]

Type(r) == String(r)

\* Strings handed to Set and values a RelationType can hold (any string
\* converts to a RelationType): the four tokens, the empty string, case
\* variants, partial matches and an unrelated word.
Names == {"ppmi", "pmi", "co", "logco", "", "PPMI", "Pmi", "ppm", "logc", "bogus"}

----------------------------------------------------------------------------
(* Package defaults and Options, options.go:59-117 *)

defaultBatchSize          == 100000
defaultDim                == 10
defaultDocInMemory        == FALSE
defaultInitlr             == 250      \* 0.025
defaultIter               == 15
defaultMaxCount           == -1
defaultMinCount           == 5
defaultNegativeSampleSize == 5
defaultSmooth             == 7500     \* 0.75
defaultSubsampleThreshold == 10       \* 1.0e-3
defaultTheta              == 1        \* 1.0e-4
defaultToLower            == FALSE
defaultVerbose            == FALSE
defaultWindow             == 5

\* runtime.NumCPU() as evaluated by the initialiser of defaultGoroutines.
NumCPU == hostCPU

\* The zero value of Options (var opts Options).
Options ==
    [BatchSize |-> 0, Dim |-> 0, DocInMemory |-> FALSE, Goroutines |-> 0,
     Initlr |-> 0, Iter |-> 0, MaxCount |-> 0, MinCount |-> 0,
     NegativeSampleSize |-> 0, RelationType |-> "", Smooth |-> 0,
     SubsampleThreshold |-> 0, Theta |-> 0, ToLower |-> FALSE,
     Verbose |-> FALSE, Window |-> 0]

DefaultOptionsAtCall ==
    [BatchSize          |-> defaultBatchSize,
     Dim                |-> defaultDim,
     DocInMemory        |-> defaultDocInMemory,
     Goroutines         |-> hostCPU,
     Initlr             |-> defaultInitlr,
     Iter               |-> defaultIter,
     MaxCount           |-> defaultMaxCount,
     MinCount           |-> defaultMinCount,
     NegativeSampleSize |-> defaultNegativeSampleSize,
     RelationType       |-> defaultRelationType,
     Smooth             |-> defaultSmooth,
     SubsampleThreshold |-> defaultSubsampleThreshold,
     Theta              |-> defaultTheta,
     ToLower            |-> defaultToLower,
     Verbose            |-> defaultVerbose,
     Window             |-> defaultWindow]

DefaultOptions ==
    [BatchSize          |-> defaultBatchSize,
     Dim                |-> defaultDim,
     DocInMemory        |-> defaultDocInMemory,
     Goroutines         |-> defaultGoroutines,
     Initlr             |-> defaultInitlr,
     Iter               |-> defaultIter,
     MaxCount           |-> defaultMaxCount,
     MinCount           |-> defaultMinCount,
     NegativeSampleSize |-> defaultNegativeSampleSize,
     RelationType       |-> defaultRelationType,
     Smooth             |-> defaultSmooth,
     SubsampleThreshold |-> defaultSubsampleThreshold,
     Theta              |-> defaultTheta,
     ToLower            |-> defaultToLower,
     Verbose            |-> defaultVerbose,
     Window             |-> defaultWindow]

\* An Options value with no field at its default and no field zero.
CustomOptions(rel) ==
    [BatchSize |-> 7, Dim |-> 7, DocInMemory |-> TRUE, Goroutines |-> 7,
     Initlr |-> 7, Iter |-> 7, MaxCount |-> 7, MinCount |-> 7,
     NegativeSampleSize |-> 7, RelationType |-> rel, Smooth |-> 7,
     SubsampleThreshold |-> 7, Theta |-> 7, ToLower |-> TRUE,
     Verbose |-> TRUE, Window |-> 7]

Fields == DOMAIN Options

----------------------------------------------------------------------------
(* Idle values of the parts a specification does not exercise *)

\* Package initialisation: defaultGoroutines = runtime.NumCPU() (options.go:63).
LoadPackage ==
    /\ hostCPU \in 1..MaxCPU
    /\ defaultGoroutines = NumCPU
    /\ cpuAtLoad = hostCPU

IdleRel  == t = "" /\ hist = <<>>
IdleTwin == u = "" /\ histU = <<>>
IdleOpt  == opts = Options /\ base = Options /\ applied = <<>>
IdleCmd  == /\ bound = FALSE /\ relDefValue = "" /\ parsed = <<>>
            /\ perr = NoError /\ dflt = <<>> /\ hostAtCall = 0

----------------------------------------------------------------------------
(* Calls on one RelationType receiver *)

SetCall(r, name) ==
    LET res == Set(r, name)
    IN  [op |-> "Set", arg |-> name, out |-> "", err |-> res.err,
         before |-> r, after |-> res.t]

StringCall(r) ==
    LET res == String(r)
    IN  [op |-> "String", arg |-> "", out |-> res.out, err |-> NoError,
         before |-> r, after |-> res.t]

TypeCall(r) ==
    LET res == Type(r)
    IN  [op |-> "Type", arg |-> "", out |-> res.out, err |-> NoError,
         before |-> r, after |-> res.t]

CallSet ==
    /\ Len(hist) < MaxCalls
    /\ \E name \in Names :
          /\ t' = SetCall(t, name).after
          /\ hist' = Append(hist, SetCall(t, name))
    /\ UNCHANGED <<envVars, twinVars, optVars, cmdVars>>

CallString ==
    /\ Len(hist) < MaxCalls
    /\ t' = StringCall(t).after
    /\ hist' = Append(hist, StringCall(t))
    /\ UNCHANGED <<envVars, twinVars, optVars, cmdVars>>

CallType ==
    /\ Len(hist) < MaxCalls
    /\ t' = TypeCall(t).after
    /\ hist' = Append(hist, TypeCall(t))
    /\ UNCHANGED <<envVars, twinVars, optVars, cmdVars>>

NextRel == CallSet \/ CallString \/ CallType

\* The receiver starts at any value a RelationType can hold.
InitRel ==
    /\ LoadPackage
    /\ t \in Names /\ hist = <<>>
    /\ IdleTwin /\ IdleOpt /\ IdleCmd

SpecRel == InitRel /\ [][NextRel]_vars

\* The receiver starts zero-valued or as the RelationType of DefaultOptions().
InitRelDefault ==
    /\ LoadPackage
    /\ t \in {"", DefaultOptions.RelationType} /\ hist = <<>>
    /\ IdleTwin /\ IdleOpt /\ IdleCmd

SpecRelDefault == InitRelDefault /\ [][NextRel]_vars

----------------------------------------------------------------------------
(* Two receivers driven by the same calls: t is zero-valued and is first   *)
(* formatted with String(); u holds any value and is first Set("ppmi").    *)

TwinFirst ==
    /\ hist = <<>>
    /\ t' = StringCall(t).after
    /\ hist' = <<StringCall(t)>>
    /\ u' = SetCall(u, "ppmi").after
    /\ histU' = <<SetCall(u, "ppmi")>>
    /\ UNCHANGED <<envVars, optVars, cmdVars>>

TwinSet ==
    /\ hist # <<>> /\ Len(hist) < MaxCalls + 1
    /\ \E name \in Names :
          /\ t' = SetCall(t, name).after
          /\ hist' = Append(hist, SetCall(t, name))
          /\ u' = SetCall(u, name).after
          /\ histU' = Append(histU, SetCall(u, name))
    /\ UNCHANGED <<envVars, optVars, cmdVars>>

TwinString ==
    /\ hist # <<>> /\ Len(hist) < MaxCalls + 1
    /\ t' = StringCall(t).after
    /\ hist' = Append(hist, StringCall(t))
    /\ u' = StringCall(u).after
    /\ histU' = Append(histU, StringCall(u))
    /\ UNCHANGED <<envVars, optVars, cmdVars>>

NextTwin == TwinFirst \/ TwinSet \/ TwinString

InitTwin ==
    /\ LoadPackage
    /\ t = "" /\ hist = <<>>
    /\ u \in Names /\ histU = <<>>
    /\ IdleOpt /\ IdleCmd

SpecTwin == InitTwin /\ [][NextTwin]_vars

----------------------------------------------------------------------------
(* Properties of RelationType *)

Legal == {"ppmi", "pmi", "co", "logco"}

\* C1: a Set with a string that is not exactly one of the four tokens returns
\* an invalid-relation-type error and leaves the receiver as it was before
\* the call, whatever the receiver held.
C1_SetRejects ==
    \A i \in 1..Len(hist) :
        (hist[i].op = "Set" /\ hist[i].arg \notin Legal) =>
            /\ hist[i].err # NoError
            /\ hist[i].err[1] = "invalid relation type: "
            /\ hist[i].after = hist[i].before
            /\ (i = Len(hist) => t = hist[i].before)

C1_Witness ==
    /\ Len(hist) = 2
    /\ hist[1].op = "Set" /\ hist[1].arg = "PPMI" /\ hist[1].before = "pmi"
    /\ hist[2].op = "Set" /\ hist[2].arg = "" /\ hist[2].err # NoError
    /\ t = "pmi"

\* C2: a Set with one of the four tokens returns no error whatever the
\* receiver held, and a String() that follows it at once returns that token
\* and leaves the receiver equal to it.
C2_SetThenString ==
    \A i \in 1..Len(hist) :
        (hist[i].op = "Set" /\ hist[i].arg \in Legal) =>
            /\ hist[i].err = NoError
            /\ (i < Len(hist) /\ hist[i + 1].op = "String") =>
                  /\ hist[i + 1].out = hist[i].arg
                  /\ hist[i + 1].after = hist[i].arg
                  /\ (i + 1 = Len(hist) => t = hist[i].arg)

C2_Witness ==
    /\ Len(hist) = 2
    /\ hist[1].op = "Set" /\ hist[1].arg = "logco" /\ hist[1].before = "bogus"
    /\ hist[2].op = "String" /\ hist[2].out = "logco"
    /\ t = "logco"

\* C3: String() on a zero-valued receiver returns "ppmi", and from then on
\* the receiver is the one Set("ppmi") produces: the same later calls return
\* the same results and leave the same receiver values.
C3_StringDefaultsLikeSet ==
    hist # <<>> =>
        /\ hist[1].before = "" /\ hist[1].out = "ppmi"
        /\ histU[1].err = NoError
        /\ t = u
        /\ Len(hist) = Len(histU)
        /\ \A i \in 2..Len(hist) :
              /\ hist[i].op = histU[i].op /\ hist[i].arg = histU[i].arg
              /\ hist[i].out = histU[i].out
              /\ hist[i].err = histU[i].err
              /\ hist[i].after = histU[i].after

C3_Witness ==
    /\ Len(hist) = 3
    /\ histU[1].before = "bogus"
    /\ hist[2].op = "Set" /\ hist[2].arg = "Pmi"
    /\ hist[3].op = "String" /\ hist[3].out = "ppmi"
    /\ t = "ppmi" /\ u = "ppmi"

\* C10: from a zero-valued receiver or the RelationType of DefaultOptions(),
\* the receiver always holds the empty value or one of the four tokens, and
\* it is not empty once a String(), a Type() or a successful Set was called.
Touched ==
    \E i \in 1..Len(hist) :
        hist[i].op \in {"String", "Type"} \/ (hist[i].op = "Set" /\ hist[i].err = NoError)

C10_ReceiverDomain ==
    /\ t \in Legal \cup {""}
    /\ Touched => t # ""

C10_Witness ==
    /\ Len(hist) = 3
    /\ hist[1].op = "Set" /\ hist[1].arg = "bogus" /\ hist[1].before = ""
    /\ hist[2].op = "Type" /\ hist[2].before = ""
    /\ hist[3].op = "Set" /\ hist[3].arg = ""
    /\ t = "ppmi"

----------------------------------------------------------------------------
(* ModelOption builders, options.go:138-234.  Builder(v)(opts) of the      *)
(* source is Builder(v, o) here and yields *opts after the call.           *)

BatchSize(v, o) == [o EXCEPT !.BatchSize = v]

DocInMemory(o) == [o EXCEPT !.DocInMemory = TRUE]

Goroutines(v, o) == [o EXCEPT !.Goroutines = v]

Dim(v, o) == [o EXCEPT !.Dim = v]

Initlr(v, o) == [o EXCEPT !.Initlr = v]

Iter(v, o) == [o EXCEPT !.Iter = v]

MaxCount(v, o) == [o EXCEPT !.MaxCount = v]

MinCountWritesMaxCount(v, o) == [o EXCEPT !.MaxCount = v]

MinCount(v, o) == [o EXCEPT !.MinCount = v]

NegativeSampleSize(v, o) == [o EXCEPT !.NegativeSampleSize = v]

RelationValidated(typ, o) == [o EXCEPT !.RelationType = Set(o.RelationType, typ).t]

Relation(typ, o) == [o EXCEPT !.RelationType = typ]

Smooth(v, o) == [o EXCEPT !.Smooth = v]

SubsampleThreshold(v, o) == [o EXCEPT !.SubsampleThreshold = v]

Theta(v, o) == [o EXCEPT !.Theta = v]

ToLower(o) == [o EXCEPT !.ToLower = TRUE]

VerboseToggles(o) == [o EXCEPT !.Verbose = ~o.Verbose]

Verbose(o) == [o EXCEPT !.Verbose = TRUE]

Window(v, o) == [o EXCEPT !.Window = v]

\* Arguments handed to the builders.
IntArgs   == {50, 100}
FloatArgs == {0, 500}      \* 0.0 and 0.05

\* opt(&opts) for a ModelOption opt; the history keeps the builder and its argument.
ApplyOption(opt, after) ==
    /\ Len(applied) < MaxOps
    /\ opts' = after
    /\ applied' = Append(applied, opt)
    /\ UNCHANGED <<base, envVars, relVars, twinVars, cmdVars>>

ApplyBatchSize == \E v \in IntArgs : ApplyOption([fn |-> "BatchSize", v |-> v], BatchSize(v, opts))
ApplyDocInMemory == ApplyOption([fn |-> "DocInMemory"], DocInMemory(opts))
ApplyGoroutines == \E v \in IntArgs : ApplyOption([fn |-> "Goroutines", v |-> v], Goroutines(v, opts))
ApplyDim == \E v \in IntArgs : ApplyOption([fn |-> "Dim", v |-> v], Dim(v, opts))
ApplyInitlr == \E v \in FloatArgs : ApplyOption([fn |-> "Initlr", v |-> v], Initlr(v, opts))
ApplyIter == \E v \in IntArgs : ApplyOption([fn |-> "Iter", v |-> v], Iter(v, opts))
ApplyMaxCount == \E v \in IntArgs : ApplyOption([fn |-> "MaxCount", v |-> v], MaxCount(v, opts))
ApplyMinCount == \E v \in IntArgs : ApplyOption([fn |-> "MinCount", v |-> v], MinCount(v, opts))
ApplyNegativeSampleSize ==
    \E v \in IntArgs : ApplyOption([fn |-> "NegativeSampleSize", v |-> v], NegativeSampleSize(v, opts))
ApplyRelation == \E typ \in Names : ApplyOption([fn |-> "Relation", v |-> typ], Relation(typ, opts))
ApplySmooth == \E v \in FloatArgs : ApplyOption([fn |-> "Smooth", v |-> v], Smooth(v, opts))
ApplySubsampleThreshold ==
    \E v \in FloatArgs : ApplyOption([fn |-> "SubsampleThreshold", v |-> v], SubsampleThreshold(v, opts))
ApplyTheta == \E v \in FloatArgs : ApplyOption([fn |-> "Theta", v |-> v], Theta(v, opts))
ApplyToLower == ApplyOption([fn |-> "ToLower"], ToLower(opts))
ApplyVerbose == ApplyOption([fn |-> "Verbose"], Verbose(opts))
ApplyWindow == \E v \in IntArgs : ApplyOption([fn |-> "Window", v |-> v], Window(v, opts))

NextOpts ==
    \/ ApplyBatchSize \/ ApplyDocInMemory \/ ApplyGoroutines \/ ApplyDim
    \/ ApplyInitlr \/ ApplyIter \/ ApplyMaxCount \/ ApplyMinCount
    \/ ApplyNegativeSampleSize \/ ApplyRelation \/ ApplySmooth
    \/ ApplySubsampleThreshold \/ ApplyTheta \/ ApplyToLower \/ ApplyVerbose
    \/ ApplyWindow

\* The base is DefaultOptions(), the zero Options or a value with every
\* field set by hand (booleans true, RelationType legal or not).
InitOpts ==
    /\ LoadPackage
    /\ opts \in {DefaultOptions, Options, CustomOptions("co"), CustomOptions("bogus")}
    /\ base = opts /\ applied = <<>>
    /\ IdleRel /\ IdleTwin /\ IdleCmd

SpecOpts == InitOpts /\ [][NextOpts]_vars

----------------------------------------------------------------------------
(* Properties of the ModelOption builders *)

\* The field a builder is documented to target and the value it is to write.
TargetField(opt) == IF opt.fn = "Relation" THEN "RelationType" ELSE opt.fn
WrittenValue(opt) ==
    IF opt.fn \in {"DocInMemory", "ToLower", "Verbose"} THEN TRUE ELSE opt.v

Targeting(f) == {i \in 1..Len(applied) : TargetField(applied[i]) = f}
LastTargeting(f) == CHOOSE i \in Targeting(f) : \A j \in Targeting(f) : j <= i

\* C7: after any sequence of ModelOptions applied to a base, every field
\* targeted by some option holds the value written by the last option that
\* targets it, and every other field holds its base value.
C7_LastWriteWins ==
    \A f \in Fields :
        IF Targeting(f) = {}
        THEN opts[f] = base[f]
        ELSE opts[f] = WrittenValue(applied[LastTargeting(f)])

C7_Witness ==
    /\ base = DefaultOptions
    /\ Len(applied) = 2
    /\ applied[1].fn = "Dim" /\ applied[1].v = 50
    /\ applied[2].fn = "Dim" /\ applied[2].v = 100
    /\ opts.Dim = 100
    /\ opts.Iter = 15

\* C8: DocInMemory(), ToLower() and Verbose() set their field to true whatever
\* it held, and no step of a sequence of ModelOptions changes one of the
\* three fields from true to false.
EnableOnlyStep ==
    /\ opts.DocInMemory => opts'.DocInMemory
    /\ opts.ToLower => opts'.ToLower
    /\ opts.Verbose => opts'.Verbose
    /\ Len(applied') = Len(applied) + 1 =>
          LET opt == applied'[Len(applied')]
          IN  /\ opt.fn = "DocInMemory" => opts'.DocInMemory
              /\ opt.fn = "ToLower" => opts'.ToLower
              /\ opt.fn = "Verbose" => opts'.Verbose

C8_EnableOnly == [][EnableOnlyStep]_vars

C8_Witness ==
    /\ Len(applied) = 2
    /\ applied[1].fn = "Verbose" /\ applied[2].fn = "Verbose"
    /\ ~base.Verbose /\ ~base.ToLower
    /\ opts.Verbose /\ ~opts.ToLower

\* C9: Relation(v) validates nothing: applied to any Options it leaves
\* RelationType equal to v, also for the empty value and for values outside
\* the four tokens.
C9_RelationUnchecked ==
    (applied # <<>> /\ applied[Len(applied)].fn = "Relation") =>
        opts.RelationType = applied[Len(applied)].v

C9_Witness ==
    /\ Len(applied) = 2
    /\ applied[1].fn = "Relation" /\ applied[1].v = "bogus"
    /\ applied[2].fn = "Relation" /\ applied[2].v = ""
    /\ base.RelationType = "ppmi"
    /\ opts.RelationType = ""

----------------------------------------------------------------------------
(* DefaultOptions(), LoadForCmd and the parse of --rel, options.go:98-136.  *)
(* pflag's IntVar, IntVarP, BoolVar and Float64Var store the default they   *)
(* are given into the bound field when the flag is registered.  Var takes   *)
(* no default: it records value.String() as the flag's DefValue and leaves  *)
(* the value otherwise alone.  Parsing --rel=x calls Set(x) on the bound    *)
(* value and wraps a returned error as                                      *)
(*     invalid argument "x" for "--rel" flag: <error>.                      *)

LoadForCmd(o) ==
    LET rel == String(o.RelationType)
    IN  [opts |->
            [BatchSize          |-> defaultBatchSize,
             Dim                |-> defaultDim,
             Goroutines         |-> defaultGoroutines,
             DocInMemory        |-> defaultDocInMemory,
             Initlr             |-> defaultInitlr,
             Iter               |-> defaultIter,
             MaxCount           |-> defaultMaxCount,
             MinCount           |-> defaultMinCount,
             NegativeSampleSize |-> defaultNegativeSampleSize,
             RelationType       |-> rel.t,
             Smooth             |-> defaultSmooth,
             SubsampleThreshold |-> defaultSubsampleThreshold,
             Theta              |-> defaultTheta,
             ToLower            |-> defaultToLower,
             Verbose            |-> defaultVerbose,
             Window             |-> defaultWindow],
         defValue |-> rel.out]

\* The host starts reporting another processing-unit count.
HostChange ==
    /\ \E n \in 1..MaxCPU : n # hostCPU /\ hostCPU' = n
    /\ UNCHANGED <<defaultGoroutines, cpuAtLoad, relVars, twinVars, optVars, cmdVars>>

CallDefaultOptions ==
    /\ dflt' = <<DefaultOptions>>
    /\ hostAtCall' = hostCPU
    /\ UNCHANGED <<envVars, relVars, twinVars, optVars, bound, relDefValue, parsed, perr>>

\* A flag name is registered once (pflag panics on a redefined flag).
CallLoadForCmd ==
    /\ ~bound
    /\ bound' = TRUE
    /\ opts' = LoadForCmd(opts).opts
    /\ relDefValue' = LoadForCmd(opts).defValue
    /\ UNCHANGED <<envVars, relVars, twinVars, base, applied, parsed, perr, dflt, hostAtCall>>

ParseRel ==
    /\ bound
    /\ \E x \in Names :
          LET res == Set(opts.RelationType, x)
          IN  /\ opts' = [opts EXCEPT !.RelationType = res.t]
              /\ perr' = IF res.err = NoError
                         THEN NoError
                         ELSE <<"invalid argument ", x, " for ", "--rel", " flag: ">> \o res.err
              /\ parsed' = <<x>>
    /\ UNCHANGED <<envVars, relVars, twinVars, base, applied, bound, relDefValue, dflt, hostAtCall>>

NextCmd == HostChange \/ CallDefaultOptions \/ CallLoadForCmd \/ ParseRel

\* The Options handed to LoadForCmd is zero-valued, DefaultOptions() or set
\* by hand with an empty, a legal or an illegal RelationType.
InitCmd ==
    /\ LoadPackage
    /\ opts \in {Options, DefaultOptions} \cup {CustomOptions(r) : r \in {"", "pmi", "bogus"}}
    /\ base = opts /\ applied = <<>>
    /\ IdleRel /\ IdleTwin /\ IdleCmd

SpecCmd == InitCmd /\ [][NextCmd]_vars

----------------------------------------------------------------------------
(* Properties of DefaultOptions() and LoadForCmd *)

C5_AllFieldsDefault ==
    (bound /\ parsed = <<>>) => \A f \in Fields : opts[f] = DefaultOptions[f]

\* C6: after LoadForCmd, parsing --rel=x fails for x outside the four tokens
\* with an error whose message names x and lists ppmi|pmi|co|logco in this
\* order, and succeeds for a token x, leaving RelationType equal to x.
C6_RelFlagUsesSet ==
    parsed # <<>> =>
        LET x == parsed[1]
        IN  IF x \in Legal
            THEN perr = NoError /\ opts.RelationType = x
            ELSE /\ Len(perr) >= 10
                 /\ SubSeq(perr, Len(perr) - 9, Len(perr)) =
                       <<"invalid relation type: ", x, " not in ",
                         "ppmi", "|", "pmi", "|", "co", "|", "logco">>

C6_Witness ==
    /\ base.RelationType = ""
    /\ parsed = <<"bogus">>
    /\ perr # NoError
    /\ opts.RelationType = "pmi"

====
